---- MODULE Spec2Model ----
\* MorphStorm (src/js/crypto.js): the MorphRTC mesh manager of one node, with
\* the remote peers, the transport and the crypto provider as its environment,
\* and the MorphSignaling reconnection logic.
\*
\* A JavaScript task runs to completion: an action of this model is one task,
\* from the event that starts it (or the crypto promise that resumes it) up to
\* the next await of a crypto operation or the end of the handler.  An await
\* of an async function that returns without awaiting a crypto operation only
\* takes microtask ticks, which no other task can interleave with.
EXTENDS Integers, Sequences, FiniteSets, TLC

\* ------------------------------------------------------------------ bounds
NumPeers == 2     \* remote peer ids
MaxObj == 2       \* peerState objects created over the run
MaxMsg == 2       \* messages submitted with sendToPeer / broadcast
MaxCtrl == 2      \* key exchanges started by a signal or a control frame
MaxInputs == 5    \* sessions created + messages accepted + key exchanges started
MaxRx == 2        \* application frames received

Ids == 1..NumPeers
NoObj == 0        \* peers.get(id) === undefined
NoKey == 0        \* sharedKey: null, or a signal without publicKey
BadKey == -1      \* a publicKey that importKey rejects
PubOffset == 10
PubKeys == {PubOffset + 1, PubOffset + 2}   \* exported public keys of remote peers
MyPriv == 3       \* myKeyPair.privateKey

VARIABLES
  peers,      \* the Map peerId -> peerState, as its entry list in insertion order
  heap,       \* the peerState objects ever created (with their connection and channel)
  tasks,      \* async functions suspended at an await of a crypto operation
  wire,       \* per peerState object: the frames sent on its data channel, in order
  emitted,    \* per peerState object: how many events of each type were emitted
  nextMsg,    \* number of messages submitted so far
  ctrlRecv,   \* number of key exchanges started so far
  ret         \* what the sendToPeer / broadcast call made in this step returned

rtcVars == <<peers, heap, tasks, wire, emitted, nextMsg, ctrlRecv, ret>>

VARIABLES
  ws,                 \* readyState of the socket `ws` holds ("null" before the first)
  others,             \* live sockets that `ws` no longer names, by readyState
  reconnectTimer,     \* the delay of the pending timer `reconnectTimer` names, or NoTimer
  orphanTimers,       \* pending reconnect timers that `reconnectTimer` no longer names
  reconnectAttempts,
  myPeerId,
  status,             \* the state of the last 'status' event
  autoAttempts,       \* connect() calls made by reconnect timers since the last onopen
  closes,             \* onclose events since the last onopen
  solo,               \* the last onopen left one live socket and no timer, and the
                      \* application has called neither connect() nor disconnect() since
  userCalls           \* connect() / disconnect() calls of the application so far

sigVars == <<ws, others, reconnectTimer, orphanTimers, reconnectAttempts, myPeerId,
             status, autoAttempts, closes, solo, userCalls>>

\* What the specifications of single handlers observe besides the state above.
VARIABLES
  lastCall,   \* the API call made in this step: [op, id], or NoCall
  log,        \* per peerState object: the 'message' events and the errors that
              \* dc.onmessage and the key exchange reported for it, in order
  rxCount     \* number of application frames received so far

obsVars == <<lastCall, log, rxCount>>

VARIABLES
  connPromise   \* the promise the last connect() call returned, and its timeout

connVars == <<connPromise>>

VARIABLES
  busHandlers,   \* the Map type -> array of callbacks of on / emit
  busEvents,     \* the types of the events published so far, in order
  busDelivered   \* the callback invocations so far: [h, ev], in order

busVars == <<busHandlers, busEvents, busDelivered>>

\* Two nodes that each run MorphRTC and hold at most the session of the other.
VARIABLES
  pair,        \* per node: the peerState it holds for the other node, or NoSess
  sigNet,      \* per node: the signals relayed to it and not yet handled, in order
  chan,        \* per node: the data-channel frames sent to it and not yet handled
  pairTasks,   \* async functions of either node suspended in a crypto operation
  pairCount,   \* per node: connectToPeer calls, messages submitted, control frames sent
  pairInbox    \* per node: what dc.onmessage made of the application frames

pairVars == <<pair, sigNet, chan, pairTasks, pairCount, pairInbox>>

VARIABLES
  stopped   \* the application's last call of connect() / disconnect() was disconnect()

stopVars == <<stopped>>

\* The variables no handler of MorphRTC or of the reconnection logic touches.
farVars == <<connVars, busVars, pairVars, stopVars>>

extVars == <<obsVars, farVars>>

\* ------------------------------------------------------------- MorphCrypto
\* exportPublicKey(generateKeyPair().publicKey): the public half of a private key.
exportPublicKey(priv) == priv + PubOffset

\* An import that accepts any JWK.
importAcceptsAll(pk) == TRUE

\* importPublicKey: a JWK that does not encode a curve point throws.
importOk(pk) == pk > PubOffset

\* A derivation that depends on the own key pair only.
deriveOwnKeyOnly(priv, pub) == priv

\* deriveSharedKey: ECDH, symmetric in the two key pairs.
deriveSharedKey(priv, pub) == priv * (pub - PubOffset)

\* completeKeyExchange(keyPair, jwk): import, then derive.
completeKeyExchange(priv, pk) == deriveSharedKey(priv, pk)

\* encrypt(sharedKey, JSON.stringify(messageObj)): an AES-GCM frame.
encrypt(key, msg) == [t |-> "app", msg |-> msg, key |-> key]

\* An application frame as a remote peer sends it: message n encrypted with
\* key; json says whether the plaintext is the JSON text of a message object.
RemoteFrame(key, n, json) == [t |-> "app", msg |-> n, key |-> key, json |-> json]

\* A decrypt that authenticates nothing.
decryptAcceptsAll(key, f) == TRUE

\* decrypt(sharedKey, raw): AES-GCM authenticates the frame against the key;
\* a frame made with another key, or a corrupted one, throws.
decryptOk(key, f) == f.t = "app" /\ f.key = key

\* JSON.parse(decrypted) (line 976) throws on a plaintext that is not JSON.
jsonOk(f) == f.json

\* The control frame dc.onopen sends.
ControlFrame == [t |-> "ctrl", msg |-> 0, key |-> exportPublicKey(MyPriv)]

\* An entry of the log of dc.send calls.  via says who sent the frame: dc.onopen
\* ("onopen"), or sendToPeer called by the flush loop ("flush"), by the
\* application ("send") or by broadcast ("bcast").
Sent(frame, via) == [frame |-> frame, via |-> via]

\* ---------------------------------------------------------- the peers Map
PeersIndex(m, id) ==
  LET S == {i \in 1..Len(m) : m[i].id = id}
  IN  IF S = {} THEN 0 ELSE CHOOSE i \in S : TRUE

PeersGet(m, id) ==
  IF PeersIndex(m, id) = 0 THEN NoObj ELSE m[PeersIndex(m, id)].obj

\* Map.set: a new key is appended, an existing key keeps its position.
PeersSet(m, id, o) ==
  IF PeersIndex(m, id) = 0
  THEN Append(m, [id |-> id, obj |-> o])
  ELSE [m EXCEPT ![PeersIndex(m, id)] = [id |-> id, obj |-> o]]

PeersDelete(m, id) ==
  LET i == PeersIndex(m, id)
  IN  IF i = 0 THEN m
      ELSE [j \in 1..(Len(m) - 1) |-> IF j < i THEN m[j] ELSE m[j + 1]]

\* A live Map iterator that has passed `pos` entries, after entry i is deleted.
IterAfterDelete(pos, i) == IF i # 0 /\ i <= pos THEN pos - 1 ELSE pos

\* ----------------------------------------------------------------- objects
NewPeerState(id, initiator) ==
  [id |-> id, sharedKey |-> NoKey, state |-> "connecting",
   isInitiator |-> initiator, pendingMessages |-> <<>>,
   dc |-> "connecting", pc |-> "live",
   queued |-> {}]    \* history: every message ever pushed on pendingMessages

\* No frame: the `frame` of a task that is not a dc.onmessage call.
NoFrame == [t |-> "", msg |-> 0, key |-> NoKey, json |-> FALSE]

NoTask ==
  [kind |-> "none", n |-> 0, id |-> 0, obj |-> 0, tgt |-> 0, pk |-> 0, msg |-> 0,
   key |-> 0, rest |-> <<>>, pos |-> 0, res |-> <<>>, snap |-> <<>>, frame |-> NoFrame]

NoRet == [msg |-> 0, id |-> 0, ret |-> FALSE, how |-> "", res |-> <<>>, snap |-> <<>>]

\* The inputs used so far, against MaxInputs.
Inputs == Len(heap) + nextMsg + ctrlRecv

\* Peer ids are interchangeable: the first session is created for id 1.
FreshId(id) == \A j \in 1..(id - 1) : \E o \in 1..Len(heap) : heap[o].id = j

\* Remote public keys are interchangeable: the first key exchange uses the
\* first of them.
FreshKey(pk) == pk <= PubOffset + 1 + ctrlRecv

NoCall == [op |-> "", id |-> 0]

ObsInit ==
  /\ lastCall = NoCall
  /\ log = [o \in 1..MaxObj |-> <<>>]
  /\ rxCount = 0

RtcInit ==
  /\ peers = <<>>
  /\ heap = <<>>
  /\ tasks = {}
  /\ wire = [o \in 1..MaxObj |-> <<>>]
  /\ emitted = [o \in 1..MaxObj |-> [enc |-> 0, disc |-> 0]]
  /\ nextMsg = 0
  /\ ctrlRecv = 0
  /\ ret = NoRet

\* S is the bundle [peers, heap, tasks, emitted] a handler works on.
Bundle == [peers |-> peers, heap |-> heap, tasks |-> tasks, emitted |-> emitted]

\* pc.close() closes the connection's data channel; its close event may follow.
ClosedDc(d) == IF d \in {"connecting", "open"} THEN "closing" ELSE d

\* A teardown that publishes the event and leaves the entry in the table.
handlePeerDisconnectKeepsEntry(S, id) ==
  LET o == PeersGet(S.peers, id)
  IN  IF o = NoObj THEN S
      ELSE [S EXCEPT !.heap = [S.heap EXCEPT ![o].pc = "closed", ![o].dc = ClosedDc(@)],
                     !.emitted = [S.emitted EXCEPT ![o].disc = @ + 1]]

\* handlePeerDisconnect (lines 999-1006).
handlePeerDisconnect(S, id) ==
  LET o == PeersGet(S.peers, id)
      i == PeersIndex(S.peers, id)
  IN  IF o = NoObj THEN S
      ELSE [peers |-> PeersDelete(S.peers, id),
            heap |-> [S.heap EXCEPT ![o].pc = "closed", ![o].dc = ClosedDc(@)],
            tasks |-> {[t EXCEPT !.pos = IterAfterDelete(@, i)] : t \in S.tasks},
            emitted |-> [S.emitted EXCEPT ![o].disc = @ + 1]]

\* disconnectAll (lines 1050-1055): the loop deletes the entry it stands on,
\* so the live iterator always finds the next entry first; then peers.clear().
RECURSIVE DisconnectLoop(_)
DisconnectLoop(S) ==
  IF S.peers = <<>> THEN S
  ELSE DisconnectLoop(handlePeerDisconnect(S, S.peers[1].id))

\* A disconnectAll that tears down the first session only.
disconnectAllFirstOnly(S) ==
  IF S.peers = <<>> THEN S ELSE handlePeerDisconnect(S, S.peers[1].id)

disconnectAllResult(S) ==
  LET T == DisconnectLoop(S)
  IN  [T EXCEPT !.peers = <<>>, !.tasks = {[t EXCEPT !.pos = 0] : t \in T.tasks}]

\* History kept with a broadcast: the table as it was at the call.
Snapshot(m, h) ==
  [i \in 1..Len(m) |->
     [id |-> m[i].id, obj |-> m[i].obj, encrypted |-> h[m[i].obj].sharedKey # NoKey]]

\* getPeerList (lines 1057-1064).
getPeerList(m, h) ==
  [i \in 1..Len(m) |->
     [id |-> m[i].id, state |-> h[m[i].obj].state,
      encrypted |-> h[m[i].obj].sharedKey # NoKey]]

SetBundle(S) ==
  /\ peers' = S.peers
  /\ heap' = S.heap
  /\ tasks' = S.tasks
  /\ emitted' = S.emitted

\* ------------------------------------------------------------ connectToPeer
\* Lines 798-817: the synchronous part; the offer is sent after two awaits
\* that touch no peerState.
connectToPeer(id) ==
  /\ Len(heap) < MaxObj
  /\ Inputs < MaxInputs
  /\ FreshId(id)
  /\ heap' = Append(heap, NewPeerState(id, TRUE))
  /\ peers' = PeersSet(peers, id, Len(heap) + 1)
  /\ UNCHANGED <<tasks, wire, emitted, nextMsg, ctrlRecv>>
  /\ ret' = NoRet

\* handleSignal, signal.type === 'offer' (lines 831-855).
handleOffer(id) ==
  /\ Len(heap) < MaxObj
  /\ Inputs < MaxInputs
  /\ FreshId(id)
  /\ heap' = Append(heap, NewPeerState(id, FALSE))
  /\ peers' = PeersSet(peers, id, Len(heap) + 1)
  /\ UNCHANGED <<tasks, wire, emitted, nextMsg, ctrlRecv>>
  /\ ret' = NoRet

\* dc.onopen (lines 932-944) of the channel of object o.  For a responder the
\* channel first arrives with pc.ondatachannel (lines 851-855), which only
\* stores it and installs these handlers: until it is open, sendToPeer treats
\* a missing channel and a connecting one alike.
onOpen(o) ==
  /\ o \in 1..Len(heap)
  /\ heap[o].dc = "connecting"
  /\ heap[o].pc = "live"
  /\ LET id == heap[o].id
         p == PeersGet(peers, id)
         h1 == [heap EXCEPT ![o].dc = "open"]
     IN  /\ heap' = IF p # NoObj THEN [h1 EXCEPT ![p].state = "open"] ELSE h1
         /\ wire' = [wire EXCEPT ![o] = Append(@, Sent(ControlFrame, "onopen"))]
  /\ UNCHANGED <<peers, tasks, emitted, nextMsg, ctrlRecv>>
  /\ ret' = NoRet

\* The transport starts closing the channel of o: readyState leaves 'open'
\* before the close event is delivered.
dcClosing(o) ==
  /\ o \in 1..Len(heap)
  /\ heap[o].dc \in {"connecting", "open"}
  /\ heap' = [heap EXCEPT ![o].dc = "closing"]
  /\ UNCHANGED <<peers, tasks, wire, emitted, nextMsg, ctrlRecv>>
  /\ ret' = NoRet

\* dc.onclose (lines 989-992).
onClose(o) ==
  /\ o \in 1..Len(heap)
  /\ heap[o].dc = "closing"
  /\ LET S == [Bundle EXCEPT !.heap = [heap EXCEPT ![o].dc = "closed"]]
     IN  SetBundle(handlePeerDisconnect(S, heap[o].id))
  /\ UNCHANGED <<wire, nextMsg, ctrlRecv>>
  /\ ret' = NoRet

\* pc.oniceconnectionstatechange (lines 921-928) of the connection of o, with
\* iceConnectionState 'disconnected', 'failed' or 'closed'.
onIceChange(o) ==
  /\ o \in 1..Len(heap)
  /\ heap[o].pc = "live"
  /\ SetBundle(handlePeerDisconnect(Bundle, heap[o].id))
  /\ UNCHANGED <<wire, nextMsg, ctrlRecv>>
  /\ ret' = NoRet

\* disconnectPeer (lines 1045-1047).
disconnectPeer(id) ==
  /\ SetBundle(handlePeerDisconnect(Bundle, id))
  /\ UNCHANGED <<wire, nextMsg, ctrlRecv>>
  /\ ret' = NoRet

\* disconnectAll (lines 1050-1055).
disconnectAll ==
  /\ SetBundle(disconnectAllResult(Bundle))
  /\ UNCHANGED <<wire, nextMsg, ctrlRecv>>
  /\ ret' = [NoRet EXCEPT !.how = "disconnectAll"]

\* ---------------------------------------------------------------- sendToPeer
\* A sendToPeer that tests the channel before the key.
SendImmediateChannelFirst(m, h, id, msg) ==
  LET o == PeersGet(m, id)
  IN  IF o = NoObj
      THEN [how |-> "nopeer", ret |-> FALSE, heap |-> h, tgt |-> NoObj, key |-> NoKey]
      ELSE IF h[o].dc # "open"
      THEN [how |-> "closed", ret |-> FALSE, heap |-> h, tgt |-> o, key |-> NoKey]
      ELSE IF h[o].sharedKey = NoKey
      THEN [how |-> "queued", ret |-> TRUE,
            heap |-> [h EXCEPT ![o].pendingMessages = Append(@, msg),
                               ![o].queued = @ \cup {msg}],
            tgt |-> o, key |-> NoKey]
      ELSE [how |-> "await", ret |-> FALSE, heap |-> h, tgt |-> o,
            key |-> h[o].sharedKey]

\* A sendToPeer that encrypts whether or not the session has a key.
SendImmediateUnkeyed(m, h, id, msg) ==
  LET o == PeersGet(m, id)
  IN  IF o = NoObj
      THEN [how |-> "nopeer", ret |-> FALSE, heap |-> h, tgt |-> NoObj, key |-> NoKey]
      ELSE IF h[o].dc # "open"
      THEN [how |-> "closed", ret |-> FALSE, heap |-> h, tgt |-> o, key |-> NoKey]
      ELSE [how |-> "await", ret |-> FALSE, heap |-> h, tgt |-> o,
            key |-> h[o].sharedKey]

\* sendToPeer up to its await (lines 1009-1026): what it returns at once, or
\* that it suspends in MorphCrypto.encrypt with the key it read.
SendImmediate(m, h, id, msg) ==
  LET o == PeersGet(m, id)
  IN  IF o = NoObj
      THEN [how |-> "nopeer", ret |-> FALSE, heap |-> h, tgt |-> NoObj, key |-> NoKey]
      ELSE IF h[o].sharedKey = NoKey
      THEN [how |-> "queued", ret |-> TRUE,
            heap |-> [h EXCEPT ![o].pendingMessages = Append(@, msg),
                               ![o].queued = @ \cup {msg}],
            tgt |-> o, key |-> NoKey]
      ELSE IF h[o].dc # "open"
      THEN [how |-> "closed", ret |-> FALSE, heap |-> h, tgt |-> o, key |-> NoKey]
      ELSE [how |-> "await", ret |-> FALSE, heap |-> h, tgt |-> o,
            key |-> h[o].sharedKey]

\* sendToPeer after the await (lines 1027-1032): dataChannel.send throws unless
\* the channel is open, and the catch returns false.
SendCompletes(h, tgt) == h[tgt].dc = "open"

WireAfterSend(w, h, tgt, msg, key, via) ==
  IF SendCompletes(h, tgt)
  THEN [w EXCEPT ![tgt] = Append(@, Sent(encrypt(key, msg), via))]
  ELSE w

\* The flush loop (lines 900-903) from the message it stands on, up to the
\* next sendToPeer that suspends, or to the end of the array.
RECURSIVE FlushRun(_, _, _, _)
FlushRun(m, h, id, rest) ==
  IF rest = <<>>
  THEN [done |-> TRUE, heap |-> h, tgt |-> NoObj, msg |-> 0, key |-> NoKey, rest |-> <<>>]
  ELSE LET r == SendImmediate(m, h, id, Head(rest))
       IN  IF r.how = "await"
           THEN [done |-> FALSE, heap |-> h, tgt |-> r.tgt, msg |-> Head(rest),
                 key |-> r.key, rest |-> Tail(rest)]
           ELSE FlushRun(m, r.heap, id, Tail(rest))

\* The flush of `obj` continues with `rest`; line 903 runs when the loop ends.
FlushStep(m, h, t, rest) ==
  LET r == FlushRun(m, h, t.id, rest)
  IN  IF r.done
      THEN [heap |-> [r.heap EXCEPT ![t.obj].pendingMessages = <<>>], tasks |-> {}]
      ELSE [heap |-> r.heap,
            tasks |-> {[t EXCEPT !.kind = "flush", !.tgt = r.tgt, !.msg = r.msg,
                                 !.key = r.key, !.rest = r.rest]}]

\* handleSignal, signal.type === 'key-exchange', up to its await (lines
\* 887-893): called by dc.onmessage for a control frame and by the app's
\* 'signal' handler.
KeyExchangeStart(id, pk) ==
  LET p == PeersGet(peers, id)
  IN  /\ p # NoObj
      /\ pk # NoKey
      /\ FreshKey(pk)
      /\ ctrlRecv < MaxCtrl
      /\ Inputs < MaxInputs
      /\ ctrlRecv' = ctrlRecv + 1
      /\ tasks' = tasks \cup {[NoTask EXCEPT !.kind = "kx", !.n = ctrlRecv + 1,
                                              !.id = id, !.obj = p, !.pk = pk]}
      /\ UNCHANGED <<peers, heap, wire, emitted, nextMsg>>
      /\ ret' = NoRet

\* dc.onmessage with a control frame (lines 946-967) on the channel of o.
onControlFrame(o, pk) ==
  /\ o \in 1..Len(heap)
  /\ heap[o].dc = "open"
  /\ KeyExchangeStart(heap[o].id, pk)

\* MorphApp's 'signal' handler (lines 401-403) with a key-exchange signal.
onSignalKeyExchange(id, pk) ==
  /\ KeyExchangeStart(id, pk)

\* completeKeyExchange settles (lines 892-906).
kxResume(t) ==
  /\ t \in tasks
  /\ t.kind = "kx"
  /\ IF ~importOk(t.pk)
     THEN /\ tasks' = tasks \ {t}
          /\ UNCHANGED <<heap, emitted>>
     ELSE LET h1 == [heap EXCEPT ![t.obj].sharedKey = completeKeyExchange(MyPriv, t.pk),
                                 ![t.obj].state = "encrypted"]
              r == FlushStep(peers, h1, t, h1[t.obj].pendingMessages)
          IN  /\ heap' = r.heap
              /\ tasks' = (tasks \ {t}) \cup r.tasks
              /\ emitted' = [emitted EXCEPT ![t.obj].enc = @ + 1]
  /\ UNCHANGED <<peers, wire, nextMsg, ctrlRecv>>
  /\ ret' = NoRet

\* The encrypt awaited by a sendToPeer of the flush loop settles.
flushResume(t) ==
  /\ t \in tasks
  /\ t.kind = "flush"
  /\ wire' = WireAfterSend(wire, heap, t.tgt, t.msg, t.key, "flush")
  /\ LET r == FlushStep(peers, heap, t, t.rest)
     IN  /\ heap' = r.heap
         /\ tasks' = (tasks \ {t}) \cup r.tasks
  /\ UNCHANGED <<peers, emitted, nextMsg, ctrlRecv>>
  /\ ret' = NoRet

\* sendToPeer(id, msg) called by the application (lines 1009-1033).
sendToPeer(id) ==
  /\ nextMsg < MaxMsg
  /\ Inputs < MaxInputs
  /\ LET msg == nextMsg + 1
         r == SendImmediate(peers, heap, id, msg)
     IN  /\ heap' = r.heap
         /\ nextMsg' = IF r.how \in {"queued", "await"} THEN msg ELSE nextMsg
         /\ tasks' = IF r.how = "await"
                     THEN tasks \cup {[NoTask EXCEPT !.kind = "send", !.n = msg, !.id = id,
                                                     !.tgt = r.tgt, !.msg = msg, !.key = r.key]}
                     ELSE tasks
         /\ ret' = [NoRet EXCEPT !.msg = msg, !.id = id, !.ret = r.ret, !.how = r.how]
  /\ UNCHANGED <<peers, wire, emitted, ctrlRecv>>

sendResume(t) ==
  /\ t \in tasks
  /\ t.kind = "send"
  /\ wire' = WireAfterSend(wire, heap, t.tgt, t.msg, t.key, "send")
  /\ tasks' = tasks \ {t}
  /\ UNCHANGED <<peers, heap, emitted, nextMsg, ctrlRecv>>
  /\ ret' = NoRet

\* ------------------------------------------------------------ inbound frames
\* An entry of the log of a session: a 'message' event ("message"), the
\* console.error of dc.onmessage ("error") or of the key exchange ("kxerror"),
\* or the console.warn for a frame without a key ("nokey"), with the number
\* of the frame it is about.
Logged(ev, n) == [ev |-> ev, n |-> n]

\* The keys a remote peer can hold for this node.
RemoteKeys == {completeKeyExchange(MyPriv, pk) : pk \in PubKeys}

\* dc.onmessage with a frame that is not a control frame (lines 946-975), on
\* the channel of object o: the session is looked up by peer id, and the
\* handler suspends in MorphCrypto.decrypt with the key it read.
onAppFrame(o, key, json) ==
  /\ o \in 1..Len(heap)
  /\ heap[o].dc = "open"
  /\ rxCount < MaxRx
  /\ rxCount' = rxCount + 1
  /\ LET p == PeersGet(peers, heap[o].id)
         n == rxCount + 1
     IN  IF p = NoObj
         THEN UNCHANGED <<tasks, log>>
         ELSE IF heap[p].sharedKey = NoKey
         THEN /\ log' = [log EXCEPT ![p] = Append(@, Logged("nokey", n))]
              /\ UNCHANGED tasks
         ELSE /\ tasks' = tasks \cup {[NoTask EXCEPT !.kind = "rx", !.n = n,
                                                     !.id = heap[o].id, !.obj = p,
                                                     !.key = heap[p].sharedKey,
                                                     !.frame = RemoteFrame(key, n, json)]}
              /\ UNCHANGED log
  /\ UNCHANGED <<peers, heap, wire, emitted, nextMsg, ctrlRecv, lastCall>>
  /\ ret' = NoRet

\* MorphCrypto.decrypt settles (lines 975-986): the message event, or the catch.
rxResume(t) ==
  /\ t \in tasks
  /\ t.kind = "rx"
  /\ tasks' = tasks \ {t}
  /\ log' = [log EXCEPT ![t.obj] =
               Append(@, IF decryptOk(t.key, t.frame) /\ jsonOk(t.frame)
                         THEN Logged("message", t.frame.msg)
                         ELSE Logged("error", t.frame.msg))]
  /\ UNCHANGED <<peers, heap, wire, emitted, nextMsg, ctrlRecv, lastCall, rxCount>>
  /\ ret' = NoRet

\* completeKeyExchange settles (lines 892-906), with the console.error of the
\* catch (line 905).
kxResumeLogged(t) ==
  /\ kxResume(t)
  /\ log' = IF importOk(t.pk) THEN log
            ELSE [log EXCEPT ![t.obj] = Append(@, Logged("kxerror", t.n))]
  /\ UNCHANGED <<lastCall, rxCount>>

\* ----------------------------------------------------------------- broadcast
\* One outcome of the results array, with the session it was for.
Outcome(id, o, r, how) == [id |-> id, obj |-> o, ret |-> r, how |-> how]

\* A broadcast loop that gives up at the first send that returns false.
RECURSIVE BcastRunAbort(_, _, _, _, _)
BcastRunAbort(m, h, pos, res, msg) ==
  IF pos >= Len(m)
  THEN [done |-> TRUE, heap |-> h, pos |-> pos, res |-> res, tgt |-> NoObj, key |-> NoKey]
  ELSE LET id == m[pos + 1].id
           r == SendImmediate(m, h, id, msg)
       IN  IF r.how = "await"
           THEN [done |-> FALSE, heap |-> h, pos |-> pos + 1, res |-> res,
                 tgt |-> r.tgt, key |-> r.key]
           ELSE IF ~r.ret
           THEN [done |-> TRUE, heap |-> r.heap, pos |-> pos + 1,
                 res |-> Append(res, Outcome(id, r.tgt, r.ret, r.how)),
                 tgt |-> NoObj, key |-> NoKey]
           ELSE BcastRunAbort(m, r.heap, pos + 1,
                              Append(res, Outcome(id, r.tgt, r.ret, r.how)), msg)

\* The loop of broadcast (lines 1038-1040) over the live Map iterator that has
\* passed `pos` entries, up to the next sendToPeer that suspends or to the end.
RECURSIVE BcastRun(_, _, _, _, _)
BcastRun(m, h, pos, res, msg) ==
  IF pos >= Len(m)
  THEN [done |-> TRUE, heap |-> h, pos |-> pos, res |-> res, tgt |-> NoObj, key |-> NoKey]
  ELSE LET id == m[pos + 1].id
           r == SendImmediate(m, h, id, msg)
       IN  IF r.how = "await"
           THEN [done |-> FALSE, heap |-> h, pos |-> pos + 1, res |-> res,
                 tgt |-> r.tgt, key |-> r.key]
           ELSE BcastRun(m, r.heap, pos + 1, Append(res, Outcome(id, r.tgt, r.ret, r.how)), msg)

\* The array broadcast returns (line 1041).
Results(res) == [i \in 1..Len(res) |-> res[i].ret]

BcastStep(t, r) ==
  /\ heap' = r.heap
  /\ IF r.done
     THEN /\ tasks' = tasks \ {t}
          /\ ret' = [NoRet EXCEPT !.msg = t.msg, !.how = "broadcast", !.res = r.res,
                                  !.snap = t.snap]
     ELSE /\ tasks' = (tasks \ {t}) \cup
                        {[t EXCEPT !.kind = "bcast", !.tgt = r.tgt, !.key = r.key,
                                   !.pos = r.pos, !.res = r.res]}
          /\ ret' = NoRet

Accepting(r) ==
  ~r.done \/ \E i \in 1..Len(r.res) : r.res[i].how = "queued"

\* broadcast(messageObj) called by the application (lines 1036-1042).
broadcast ==
  /\ nextMsg < MaxMsg
  /\ Inputs < MaxInputs
  /\ LET msg == nextMsg + 1
         t == [NoTask EXCEPT !.kind = "bcast", !.n = msg, !.msg = msg,
                             !.snap = Snapshot(peers, heap)]
         r == BcastRun(peers, heap, 0, <<>>, msg)
     IN  /\ BcastStep(t, r)
         /\ nextMsg' = IF Accepting(r) THEN msg ELSE nextMsg
  /\ UNCHANGED <<peers, wire, emitted, ctrlRecv>>

\* The encrypt awaited by a sendToPeer of the broadcast loop settles.
bcastResume(t) ==
  /\ t \in tasks
  /\ t.kind = "bcast"
  /\ wire' = WireAfterSend(wire, heap, t.tgt, t.msg, t.key, "bcast")
  /\ LET o == Outcome(heap[t.tgt].id, t.tgt, SendCompletes(heap, t.tgt),
                      IF SendCompletes(heap, t.tgt) THEN "sent" ELSE "sendfail")
     IN  BcastStep(t, BcastRun(peers, heap, t.pos, Append(t.res, o), t.msg))
  /\ UNCHANGED <<peers, emitted, nextMsg, ctrlRecv>>

\* ============================================================ MorphSignaling
\* The module's state (lines 164-169) and its WebSocket objects.  connect()
\* overwrites `ws` without closing the socket it held, so a socket that is no
\* longer `ws` stays alive with its handlers: `others` counts those sockets.
NoTimer == 0
MAX_RECONNECT == 5
RECONNECT_DELAY == 3000
MaxUserCalls == 3      \* connect() / disconnect() calls of the application

NoSockets == [connecting |-> 0, open |-> 0, closing |-> 0]

SigInit ==
  /\ ws = "null"
  /\ others = NoSockets
  /\ reconnectTimer = NoTimer
  /\ orphanTimers = 0
  /\ reconnectAttempts = 0
  /\ myPeerId = 0
  /\ status = "none"
  /\ autoAttempts = 0
  /\ closes = 0
  /\ solo = FALSE
  /\ userCalls = 0

Live(w) == w \in {"connecting", "open", "closing"}

LiveSockets == (IF Live(ws) THEN 1 ELSE 0) + others.connecting + others.open + others.closing

PendingTimers == (IF reconnectTimer # NoTimer THEN 1 ELSE 0) + orphanTimers

\* `ws = new WebSocket(url)` (line 190): the socket `ws` held stays alive.
Displaced(w, oth) ==
  IF Live(w) THEN [oth EXCEPT ![w] = @ + 1] ELSE oth

\* connect() (lines 183-240), up to the handlers it installs.
ConnectBody ==
  /\ status' = "connecting"
  /\ others' = Displaced(ws, others)
  /\ ws' = "connecting"

\* The application calls connect() (line 509).
sigConnect ==
  /\ userCalls < MaxUserCalls
  /\ userCalls' = userCalls + 1
  /\ ConnectBody
  /\ solo' = FALSE
  /\ UNCHANGED <<reconnectTimer, orphanTimers, reconnectAttempts, myPeerId,
                 autoAttempts, closes>>

\* The timer of attemptReconnect fires (line 249): connect().catch(() => {}).
\* cur says whether it is the timer `reconnectTimer` names.
sigTimerFires(cur) ==
  /\ IF cur
     THEN reconnectTimer # NoTimer /\ reconnectTimer' = NoTimer /\ UNCHANGED orphanTimers
     ELSE orphanTimers > 0 /\ orphanTimers' = orphanTimers - 1 /\ UNCHANGED reconnectTimer
  /\ ConnectBody
  /\ autoAttempts' = autoAttempts + 1
  /\ UNCHANGED <<reconnectAttempts, myPeerId, closes, solo, userCalls>>

\* ws.onopen (lines 197-201) of the socket `ws` (cur) or of a displaced one.
sigOpen(cur) ==
  /\ IF cur
     THEN ws = "connecting" /\ ws' = "open" /\ UNCHANGED others
     ELSE /\ others.connecting > 0
          /\ others' = [others EXCEPT !.connecting = @ - 1, !.open = @ + 1]
          /\ UNCHANGED ws
  /\ reconnectAttempts' = 0
  /\ status' = "connected"
  /\ autoAttempts' = 0
  /\ closes' = 0
  /\ solo' = (LiveSockets = 1 /\ PendingTimers = 0)
  /\ UNCHANGED <<reconnectTimer, orphanTimers, myPeerId, userCalls>>

\* ws.onmessage with the welcome message (lines 211-217).
sigWelcome(cur) ==
  /\ IF cur THEN ws = "open" ELSE others.open > 0
  /\ myPeerId' = 1
  /\ UNCHANGED <<ws, others, reconnectTimer, orphanTimers, reconnectAttempts, status,
                 autoAttempts, closes, solo, userCalls>>

\* A client that allows one attempt too many.
ReconnectExhaustedLate(n) == n > MAX_RECONNECT

\* if (reconnectAttempts >= MAX_RECONNECT) (line 243).
ReconnectExhausted(n) == n >= MAX_RECONNECT

\* The delay of the timer (line 249).
ReconnectDelay(n) == RECONNECT_DELAY

\* attemptReconnect (lines 242-250), after onclose published 'disconnected'.
attemptReconnect ==
  IF ReconnectExhausted(reconnectAttempts)
  THEN /\ status' = "failed"
       /\ UNCHANGED <<reconnectAttempts, reconnectTimer, orphanTimers>>
  ELSE /\ status' = "disconnected"
       /\ reconnectAttempts' = reconnectAttempts + 1
       /\ reconnectTimer' = ReconnectDelay(reconnectAttempts + 1)
       /\ orphanTimers' = orphanTimers + (IF reconnectTimer # NoTimer THEN 1 ELSE 0)

\* ws.onclose (lines 222-226) of the socket `ws` (cur) in state st, or of a
\* displaced one: the connection dropped, failed to open, or was closed.
sigClose(cur, st) ==
  /\ IF cur
     THEN ws = st /\ ws' = "closed" /\ UNCHANGED others
     ELSE others[st] > 0 /\ others' = [others EXCEPT ![st] = @ - 1] /\ UNCHANGED ws
  /\ attemptReconnect
  /\ closes' = closes + 1
  /\ UNCHANGED <<myPeerId, autoAttempts, solo, userCalls>>

\* disconnect() (lines 276-280).
sigDisconnect ==
  /\ userCalls < MaxUserCalls
  /\ userCalls' = userCalls + 1
  /\ reconnectTimer' = NoTimer
  /\ reconnectAttempts' = MAX_RECONNECT
  /\ ws' = IF Live(ws) THEN "closing" ELSE ws
  /\ solo' = FALSE
  /\ UNCHANGED <<others, orphanTimers, myPeerId, status, autoAttempts, closes>>

\* ------------------------------------------- disconnect() and what follows
StopInit == stopped = FALSE

\* The application calls connect().
stopConnect == sigConnect /\ stopped' = FALSE

\* The application calls disconnect().
stopDisconnect == sigDisconnect /\ stopped' = TRUE

\* ------------------------------------------------- the promise of connect()
\* connect() returns a promise (line 184) that the welcome message of its
\* socket resolves (line 215) and that its own 10 s timer rejects when
\* myPeerId is still null (lines 234-238).
NoPromise == [state |-> "none", timeout |-> "none"]

NewPromise == [state |-> "pending", timeout |-> "armed"]

ConnInit == connPromise = NoPromise

\* if (!myPeerId) (line 235).
TimeoutRejects(id) == id = 0

\* resolve / reject of a promise that is already settled does nothing.
Settle(p, how) == IF p.state = "pending" THEN [p EXCEPT !.state = how] ELSE p

\* The application calls connect().
connCall == sigConnect /\ connPromise' = NewPromise

\* The reconnect timer calls connect().
connRetry(cur) == sigTimerFires(cur) /\ connPromise' = NewPromise

\* The welcome message: resolve(myPeerId) of the promise of that socket.
connWelcome(cur) ==
  /\ sigWelcome(cur)
  /\ connPromise' = IF cur THEN Settle(connPromise, "resolved") ELSE connPromise

\* The timer of lines 234-238 of the last connect() call fires.
connTimeout ==
  /\ connPromise.timeout = "armed"
  /\ connPromise' = [(IF TimeoutRejects(myPeerId)
                      THEN Settle(connPromise, "rejected")
                      ELSE connPromise) EXCEPT !.timeout = "fired"]
  /\ UNCHANGED sigVars

\* ------------------------------------------------------------ the event bus
\* on / emit of MorphRTC (lines 779-787) and of MorphSignaling (lines 173-181):
\* the same code.  A callback is [id, kind, since]: id numbers the callbacks in
\* subscription order, since is the number of events published when it
\* subscribed, and kind says what it does when it is called: nothing more
\* ("plain"), on(type, ...) of a new callback for the type it listens to
\* ("sub"), or emit of an event of type 2 ("pub").
MaxSubs == 3      \* callbacks subscribed
MaxEvents == 3    \* events published
EvTypes == {1, 2}
Kinds == {"plain", "sub", "pub"}

BusInit ==
  /\ busHandlers = [ty \in EvTypes |-> <<>>]
  /\ busEvents = <<>>
  /\ busDelivered = <<>>

\* B is the bundle [H, E, D] of the three variables of the bus.
BusBundle == [H |-> busHandlers, E |-> busEvents, D |-> busDelivered]

NumSubs(H) == Len(H[1]) + Len(H[2])

\* on(type, callback) (lines 779-782): push at the end of the type's array.
Subscribe(B, ty, kind) ==
  IF NumSubs(B.H) >= MaxSubs THEN B
  ELSE [B EXCEPT !.H[ty] = Append(@, [id |-> NumSubs(B.H) + 1, kind |-> kind,
                                      since |-> Len(B.E)])]

RECURSIVE Emit(_, _)
RECURSIVE ForEach(_, _, _, _, _)
RECURSIVE ForEachLive(_, _, _, _, _)
RECURSIVE Invoke(_, _, _, _)

\* cb(data): the callback runs inside emit.
Invoke(B, h, ty, k) ==
  LET B1 == [B EXCEPT !.D = Append(@, [h |-> h.id, ev |-> k])]
  IN  IF h.kind = "sub" THEN Subscribe(B1, ty, "plain")
      ELSE IF h.kind = "pub" /\ ty = 1 /\ Len(B1.E) < MaxEvents THEN Emit(B1, 2)
      ELSE B1

\* A loop that visits the callbacks pushed while it runs.
ForEachLive(B, ty, k, i, len) ==
  IF i > Len(B.H[ty]) THEN B
  ELSE ForEachLive(Invoke(B, B.H[ty][i], ty, k), ty, k, i + 1, len)

\* cbs.forEach (line 786): Array.prototype.forEach visits the indices below
\* the length the array had when forEach was called.
ForEach(B, ty, k, i, len) ==
  IF i > len THEN B
  ELSE ForEach(Invoke(B, B.H[ty][i], ty, k), ty, k, i + 1, len)

\* emit(type, data) (lines 784-787); the event is number k.
Emit(B, ty) ==
  LET k == Len(B.E) + 1
  IN  ForEach([B EXCEPT !.E = Append(@, ty)], ty, k, 1, Len(B.H[ty]))

SetBus(B) ==
  /\ busHandlers' = B.H
  /\ busEvents' = B.E
  /\ busDelivered' = B.D

\* A consumer calls on(type, callback).
busOn(ty, kind) ==
  /\ NumSubs(busHandlers) < MaxSubs
  /\ SetBus(Subscribe(BusBundle, ty, kind))

\* A module publishes an event.
busEmit(ty) ==
  /\ Len(busEvents) < MaxEvents
  /\ SetBus(Emit(BusBundle, ty))

\* ------------------------------------------------------------- two nodes
\* Node a and node Other(a) run the same MorphRTC code, joined by the
\* signaling relay (in order per direction) and, once negotiated, by an
\* ordered data channel.  Each node holds the session of the other only, so
\* its peers Map is one optional record.
MaxPairCalls == 1    \* connectToPeer calls per node
MaxPairMsg == 1      \* sendToPeer calls per node
Nodes == {1, 2}
Other(a) == 3 - a

\* myKeyPair of node a, and the JWK its control frame carries.
NodePriv(a) == MyPriv + a - 1
NodePub(a) == exportPublicKey(NodePriv(a))

NoSess ==
  [state |-> "none", sharedKey |-> NoKey, isInitiator |-> FALSE, pendingMessages |-> <<>>,
   dc |-> "none", pc |-> "none", ice |-> FALSE, remoteIce |-> FALSE]

\* peerState of connectToPeer (lines 805-813) or of the offer branch (lines
\* 837-845), with the connection: pc is its signaling state, ice whether its
\* candidate was sent, remoteIce whether the other node's candidate was added.
NewSess(initiator) ==
  [NoSess EXCEPT !.state = "connecting", !.isInitiator = initiator,
                 !.dc = IF initiator THEN "connecting" ELSE "none",
                 !.pc = IF initiator THEN "offering" ELSE "stable"]

NoCount == [calls |-> 0, msgs |-> 0, ctrl |-> 0]

PairInit ==
  /\ pair = [a \in Nodes |-> NoSess]
  /\ sigNet = [a \in Nodes |-> <<>>]
  /\ chan = [a \in Nodes |-> <<>>]
  /\ pairTasks = {}
  /\ pairCount = [a \in Nodes |-> NoCount]
  /\ pairInbox = [a \in Nodes |-> <<>>]

PairTask(a, kind, pk, msg, key, rest) ==
  [node |-> a, kind |-> kind, pk |-> pk, msg |-> msg, key |-> key, rest |-> rest]

\* connectToPeer (lines 798-827) on node a: the session and the offer.
pairConnect(a) ==
  /\ pairCount[a].calls < MaxPairCalls
  /\ pairCount' = [pairCount EXCEPT ![a].calls = @ + 1]
  /\ pair' = [pair EXCEPT ![a] = NewSess(TRUE)]
  /\ sigNet' = [sigNet EXCEPT ![Other(a)] = Append(@, "offer")]
  /\ UNCHANGED <<chan, pairTasks, pairInbox>>

\* handleSignal with an offer (lines 831-864) on node a: the session replaces
\* whatever the node held, and the answer goes back.
pairOffer(a) ==
  /\ sigNet[a] # <<>> /\ Head(sigNet[a]) = "offer"
  /\ pair' = [pair EXCEPT ![a] = NewSess(FALSE)]
  /\ sigNet' = [sigNet EXCEPT ![a] = Tail(@), ![Other(a)] = Append(@, "answer")]
  /\ UNCHANGED <<chan, pairTasks, pairCount, pairInbox>>

\* handleSignal with an answer (lines 866-873): setRemoteDescription, which
\* rejects unless the connection has an offer of its own outstanding.
pairAnswer(a) ==
  /\ sigNet[a] # <<>> /\ Head(sigNet[a]) = "answer"
  /\ sigNet' = [sigNet EXCEPT ![a] = Tail(@)]
  /\ pair' = IF pair[a].pc = "offering" THEN [pair EXCEPT ![a].pc = "stable"] ELSE pair
  /\ UNCHANGED <<chan, pairTasks, pairCount, pairInbox>>

\* pc.onicecandidate (lines 912-919): the candidate goes to the other node.
pairIceOut(a) ==
  /\ pair[a].state # "none"
  /\ ~pair[a].ice
  /\ pair' = [pair EXCEPT ![a].ice = TRUE]
  /\ sigNet' = [sigNet EXCEPT ![Other(a)] = Append(@, "ice")]
  /\ UNCHANGED <<chan, pairTasks, pairCount, pairInbox>>

\* handleSignal with a candidate (lines 875-885): addIceCandidate, whose
\* failure (no remote description yet) is caught and logged.
pairIceIn(a) ==
  /\ sigNet[a] # <<>> /\ Head(sigNet[a]) = "ice"
  /\ sigNet' = [sigNet EXCEPT ![a] = Tail(@)]
  /\ pair' = IF pair[a].pc = "stable" THEN [pair EXCEPT ![a].remoteIce = TRUE] ELSE pair
  /\ UNCHANGED <<chan, pairTasks, pairCount, pairInbox>>

\* The transport is connected: an offerer and an answerer, both with the
\* descriptions exchanged and the other's candidate.
Connected ==
  /\ \A a \in Nodes : pair[a].pc = "stable" /\ pair[a].remoteIce
  /\ \E a \in Nodes : pair[a].isInitiator /\ ~pair[Other(a)].isInitiator

\* dc.onopen (lines 932-944) on node a, for the answerer after
\* pc.ondatachannel (lines 851-855): the state, then the control frame.
pairDcOpen(a) ==
  /\ Connected
  /\ pair[a].dc \in {"none", "connecting"}
  /\ pair' = [pair EXCEPT ![a].dc = "open", ![a].state = "open"]
  /\ chan' = [chan EXCEPT ![Other(a)] =
                Append(@, [t |-> "ctrl", msg |-> 0, key |-> NodePub(a)])]
  /\ pairCount' = [pairCount EXCEPT ![a].ctrl = @ + 1]
  /\ UNCHANGED <<sigNet, pairTasks, pairInbox>>

\* dc.onmessage (lines 946-975) on node a with the next frame of its channel,
\* up to the await of completeKeyExchange or of decrypt.
pairFrame(a) ==
  /\ pair[a].dc = "open"
  /\ chan[a] # <<>>
  /\ chan' = [chan EXCEPT ![a] = Tail(@)]
  /\ LET f == Head(chan[a])
     IN  IF f.t = "ctrl"
         THEN /\ pairTasks' = pairTasks \cup {PairTask(a, "kx", f.key, 0, NoKey, <<>>)}
              /\ UNCHANGED pairInbox
         ELSE IF pair[a].sharedKey = NoKey
         THEN /\ pairInbox' = [pairInbox EXCEPT ![a] = Append(@, Logged("nokey", f.msg))]
              /\ UNCHANGED pairTasks
         ELSE /\ pairTasks' = pairTasks \cup
                                {PairTask(a, "rx", f.key, f.msg, pair[a].sharedKey, <<>>)}
              /\ UNCHANGED pairInbox
  /\ UNCHANGED <<pair, sigNet, pairCount>>

\* The flush loop (lines 899-903) of node a over `rest`: up to the next
\* sendToPeer that suspends in encrypt, or to the end, where line 903 empties
\* the queue.  R is [sess, tasks].
RECURSIVE PairFlush(_, _, _)
PairFlush(a, sess, rest) ==
  IF rest = <<>>
  THEN [sess |-> [sess EXCEPT !.pendingMessages = <<>>], tasks |-> {}]
  ELSE IF sess.dc # "open"
  THEN PairFlush(a, sess, Tail(rest))
  ELSE [sess |-> sess,
        tasks |-> {PairTask(a, "flush", NoKey, Head(rest), sess.sharedKey, Tail(rest))}]

\* completeKeyExchange settles on node t.node (lines 892-906).
pairKx(t) ==
  /\ t \in pairTasks
  /\ t.kind = "kx"
  /\ LET a == t.node
         keyed == [pair[a] EXCEPT !.sharedKey = completeKeyExchange(NodePriv(a), t.pk),
                                  !.state = "encrypted"]
         r == PairFlush(a, keyed, keyed.pendingMessages)
     IN  IF importOk(t.pk)
         THEN /\ pair' = [pair EXCEPT ![a] = r.sess]
              /\ pairTasks' = (pairTasks \ {t}) \cup r.tasks
         ELSE /\ pairTasks' = pairTasks \ {t}
              /\ UNCHANGED pair
  /\ UNCHANGED <<sigNet, chan, pairCount, pairInbox>>

\* What dataChannel.send (line 1027) of node a puts on the channel.
ChanAfterSend(a, msg, key) ==
  IF pair[a].dc = "open"
  THEN [chan EXCEPT ![Other(a)] = Append(@, encrypt(key, msg))]
  ELSE chan

\* The encrypt of a sendToPeer of the flush loop settles.
pairFlushDone(t) ==
  /\ t \in pairTasks
  /\ t.kind = "flush"
  /\ chan' = ChanAfterSend(t.node, t.msg, t.key)
  /\ LET r == PairFlush(t.node, pair[t.node], t.rest)
     IN  /\ pair' = [pair EXCEPT ![t.node] = r.sess]
         /\ pairTasks' = (pairTasks \ {t}) \cup r.tasks
  /\ UNCHANGED <<sigNet, pairCount, pairInbox>>

\* sendToPeer (lines 1009-1026) called by the application of node a.
pairSend(a) ==
  /\ pairCount[a].msgs < MaxPairMsg
  /\ pair[a].state # "none"
  /\ pairCount' = [pairCount EXCEPT ![a].msgs = @ + 1]
  /\ LET msg == pairCount[a].msgs + 1
     IN  IF pair[a].sharedKey = NoKey
         THEN /\ pair' = [pair EXCEPT ![a].pendingMessages = Append(@, msg)]
              /\ UNCHANGED pairTasks
         ELSE IF pair[a].dc # "open"
         THEN UNCHANGED <<pair, pairTasks>>
         ELSE /\ pairTasks' = pairTasks \cup
                                {PairTask(a, "send", NoKey, msg, pair[a].sharedKey, <<>>)}
              /\ UNCHANGED pair
  /\ UNCHANGED <<sigNet, chan, pairInbox>>

\* The encrypt of a sendToPeer of the application settles (lines 1027-1032).
pairSendDone(t) ==
  /\ t \in pairTasks
  /\ t.kind = "send"
  /\ chan' = ChanAfterSend(t.node, t.msg, t.key)
  /\ pairTasks' = pairTasks \ {t}
  /\ UNCHANGED <<pair, sigNet, pairCount, pairInbox>>

\* The decrypt of dc.onmessage settles (lines 975-986); t.pk is the key the
\* frame was made with.
pairRxDone(t) ==
  /\ t \in pairTasks
  /\ t.kind = "rx"
  /\ pairTasks' = pairTasks \ {t}
  /\ pairInbox' = [pairInbox EXCEPT ![t.node] =
                     Append(@, IF decryptOk(t.key, encrypt(t.pk, t.msg))
                               THEN Logged("message", t.msg)
                               ELSE Logged("error", t.msg))]
  /\ UNCHANGED <<pair, sigNet, chan, pairCount>>

\* ================================================================== the specs
Init == RtcInit /\ SigInit /\ ObsInit /\ ConnInit /\ BusInit /\ PairInit /\ StopInit

vars == <<rtcVars, sigVars, extVars>>

\* The mesh manager.
Next ==
  \/ \E id \in Ids : connectToPeer(id) /\ UNCHANGED <<sigVars, extVars>>
  \/ \E id \in Ids : handleOffer(id) /\ UNCHANGED <<sigVars, extVars>>
  \/ \E o \in 1..MaxObj : onOpen(o) /\ UNCHANGED <<sigVars, extVars>>
  \/ \E o \in 1..MaxObj : dcClosing(o) /\ UNCHANGED <<sigVars, extVars>>
  \/ \E o \in 1..MaxObj : onClose(o) /\ UNCHANGED <<sigVars, extVars>>
  \/ \E o \in 1..MaxObj : onIceChange(o) /\ UNCHANGED <<sigVars, extVars>>
  \/ \E id \in Ids : disconnectPeer(id) /\ UNCHANGED <<sigVars, extVars>>
  \/ disconnectAll /\ UNCHANGED <<sigVars, extVars>>
  \/ \E o \in 1..MaxObj, pk \in PubKeys : onControlFrame(o, pk) /\ UNCHANGED <<sigVars, extVars>>
  \/ \E id \in Ids, pk \in PubKeys : onSignalKeyExchange(id, pk) /\ UNCHANGED <<sigVars, extVars>>
  \/ \E id \in Ids : sendToPeer(id) /\ UNCHANGED <<sigVars, extVars>>
  \/ \E t \in tasks : kxResume(t) /\ UNCHANGED <<sigVars, extVars>>
  \/ \E t \in tasks : flushResume(t) /\ UNCHANGED <<sigVars, extVars>>
  \/ \E t \in tasks : sendResume(t) /\ UNCHANGED <<sigVars, extVars>>
  \/ broadcast /\ UNCHANGED <<sigVars, extVars>>
  \/ \E t \in tasks : bcastResume(t) /\ UNCHANGED <<sigVars, extVars>>

Spec == Init /\ [][Next]_vars

\* The signaling client.
NextSig ==
  \/ sigConnect /\ UNCHANGED <<rtcVars, extVars>>
  \/ \E cur \in BOOLEAN : sigTimerFires(cur) /\ UNCHANGED <<rtcVars, extVars>>
  \/ \E cur \in BOOLEAN : sigOpen(cur) /\ UNCHANGED <<rtcVars, extVars>>
  \/ \E cur \in BOOLEAN : sigWelcome(cur) /\ UNCHANGED <<rtcVars, extVars>>
  \/ \E cur \in BOOLEAN, st \in {"connecting", "open", "closing"} : sigClose(cur, st) /\ UNCHANGED <<rtcVars, extVars>>
  \/ sigDisconnect /\ UNCHANGED <<rtcVars, extVars>>

SpecSig == Init /\ [][NextSig]_vars

\* Sessions and their teardown, with the API call made in each step.
NextTeardown ==
  \/ \E id \in Ids : connectToPeer(id) /\ lastCall' = NoCall
                     /\ UNCHANGED <<sigVars, log, rxCount, farVars>>
  \/ \E id \in Ids : handleOffer(id) /\ lastCall' = NoCall
                     /\ UNCHANGED <<sigVars, log, rxCount, farVars>>
  \/ \E o \in 1..MaxObj : onOpen(o) /\ lastCall' = NoCall
                          /\ UNCHANGED <<sigVars, log, rxCount, farVars>>
  \/ \E o \in 1..MaxObj, pk \in PubKeys : onControlFrame(o, pk) /\ lastCall' = NoCall
                                          /\ UNCHANGED <<sigVars, log, rxCount, farVars>>
  \/ \E t \in tasks : kxResume(t) /\ lastCall' = NoCall
                      /\ UNCHANGED <<sigVars, log, rxCount, farVars>>
  \/ \E o \in 1..MaxObj : dcClosing(o) /\ lastCall' = NoCall
                          /\ UNCHANGED <<sigVars, log, rxCount, farVars>>
  \/ \E o \in 1..MaxObj : onClose(o) /\ lastCall' = NoCall
                          /\ UNCHANGED <<sigVars, log, rxCount, farVars>>
  \/ \E o \in 1..MaxObj : onIceChange(o) /\ lastCall' = NoCall
                          /\ UNCHANGED <<sigVars, log, rxCount, farVars>>
  \/ \E id \in Ids : disconnectPeer(id) /\ lastCall' = [op |-> "disconnectPeer", id |-> id]
                     /\ UNCHANGED <<sigVars, log, rxCount, farVars>>

SpecTeardown == Init /\ [][NextTeardown]_vars

\* Inbound frames: control frames with a valid or a malformed key, and
\* application frames that decrypt or not.
NextIn ==
  \/ \E id \in Ids : connectToPeer(id) /\ UNCHANGED <<sigVars, extVars>>
  \/ \E o \in 1..MaxObj : onOpen(o) /\ UNCHANGED <<sigVars, extVars>>
  \/ \E id \in Ids : sendToPeer(id) /\ UNCHANGED <<sigVars, extVars>>
  \/ \E o \in 1..MaxObj, pk \in PubKeys \cup {BadKey} :
       onControlFrame(o, pk) /\ UNCHANGED <<sigVars, extVars>>
  \/ \E t \in tasks : kxResumeLogged(t) /\ UNCHANGED <<sigVars, farVars>>
  \/ \E t \in tasks : flushResume(t) /\ UNCHANGED <<sigVars, extVars>>
  \/ \E t \in tasks : sendResume(t) /\ UNCHANGED <<sigVars, extVars>>
  \/ \E o \in 1..MaxObj, key \in RemoteKeys \cup {NoKey}, json \in BOOLEAN :
       onAppFrame(o, key, json) /\ UNCHANGED <<sigVars, farVars>>
  \/ \E t \in tasks : rxResume(t) /\ UNCHANGED <<sigVars, farVars>>

SpecIn == Init /\ [][NextIn]_vars

\* The signaling client with the promise of its last connect() call.
NextConn ==
  \/ connCall /\ UNCHANGED <<rtcVars, obsVars, busVars, pairVars, stopVars>>
  \/ \E cur \in BOOLEAN : connRetry(cur) /\ UNCHANGED <<rtcVars, obsVars, busVars, pairVars, stopVars>>
  \/ \E cur \in BOOLEAN : sigOpen(cur) /\ UNCHANGED <<rtcVars, obsVars, farVars>>
  \/ \E cur \in BOOLEAN : connWelcome(cur) /\ UNCHANGED <<rtcVars, obsVars, busVars, pairVars, stopVars>>
  \/ \E cur \in BOOLEAN, st \in {"connecting", "open", "closing"} :
       sigClose(cur, st) /\ UNCHANGED <<rtcVars, obsVars, farVars>>
  \/ sigDisconnect /\ UNCHANGED <<rtcVars, obsVars, farVars>>
  \/ connTimeout /\ UNCHANGED <<rtcVars, obsVars, busVars, pairVars, stopVars>>

SpecConn == Init /\ [][NextConn]_vars

\* The event bus and its consumers.
NextBus ==
  \/ \E ty \in EvTypes, kind \in Kinds :
       busOn(ty, kind) /\ UNCHANGED <<rtcVars, sigVars, obsVars, connVars, pairVars, stopVars>>
  \/ \E ty \in EvTypes : busEmit(ty) /\ UNCHANGED <<rtcVars, sigVars, obsVars, connVars, pairVars, stopVars>>

SpecBus == Init /\ [][NextBus]_vars

\* Sessions that replace one another, with the transport event handled in
\* each step: [op, id] names the handler and the peerState object whose
\* connection or channel raised the event.
NextReplace ==
  \/ \E id \in Ids : connectToPeer(id) /\ lastCall' = NoCall
       /\ UNCHANGED <<sigVars, log, rxCount, farVars>>
  \/ \E id \in Ids : handleOffer(id) /\ lastCall' = NoCall
       /\ UNCHANGED <<sigVars, log, rxCount, farVars>>
  \/ \E o \in 1..MaxObj, pk \in PubKeys : onControlFrame(o, pk) /\ lastCall' = NoCall
       /\ UNCHANGED <<sigVars, log, rxCount, farVars>>
  \/ \E t \in tasks : kxResume(t) /\ lastCall' = NoCall
       /\ UNCHANGED <<sigVars, log, rxCount, farVars>>
  \/ \E o \in 1..MaxObj : dcClosing(o) /\ lastCall' = NoCall
       /\ UNCHANGED <<sigVars, log, rxCount, farVars>>
  \/ \E o \in 1..MaxObj : onOpen(o) /\ lastCall' = [op |-> "dc.onopen", id |-> o]
       /\ UNCHANGED <<sigVars, log, rxCount, farVars>>
  \/ \E o \in 1..MaxObj : onClose(o) /\ lastCall' = [op |-> "dc.onclose", id |-> o]
       /\ UNCHANGED <<sigVars, log, rxCount, farVars>>
  \/ \E o \in 1..MaxObj : onIceChange(o) /\ lastCall' = [op |-> "pc.oniceconnectionstatechange", id |-> o]
       /\ UNCHANGED <<sigVars, log, rxCount, farVars>>

SpecReplace == Init /\ [][NextReplace]_vars

\* The signaling client, with whether the application has disconnected.
NextStop ==
  \/ stopConnect /\ UNCHANGED <<rtcVars, obsVars, connVars, busVars, pairVars>>
  \/ stopDisconnect /\ UNCHANGED <<rtcVars, obsVars, connVars, busVars, pairVars>>
  \/ \E cur \in BOOLEAN : sigTimerFires(cur) /\ UNCHANGED <<rtcVars, extVars>>
  \/ \E cur \in BOOLEAN : sigOpen(cur) /\ UNCHANGED <<rtcVars, extVars>>
  \/ \E cur \in BOOLEAN : sigWelcome(cur) /\ UNCHANGED <<rtcVars, extVars>>
  \/ \E cur \in BOOLEAN, st \in {"connecting", "open", "closing"} :
       sigClose(cur, st) /\ UNCHANGED <<rtcVars, extVars>>

SpecStop == Init /\ [][NextStop]_vars

\* Two nodes, either of which may call connectToPeer for the other.
NextPair ==
  \/ \E a \in Nodes : pairConnect(a) /\ UNCHANGED <<rtcVars, sigVars, obsVars, connVars, busVars, stopVars>>
  \/ \E a \in Nodes : pairSend(a) /\ UNCHANGED <<rtcVars, sigVars, obsVars, connVars, busVars, stopVars>>
  \/ \E a \in Nodes : pairOffer(a) /\ UNCHANGED <<rtcVars, sigVars, obsVars, connVars, busVars, stopVars>>
  \/ \E a \in Nodes : pairAnswer(a) /\ UNCHANGED <<rtcVars, sigVars, obsVars, connVars, busVars, stopVars>>
  \/ \E a \in Nodes : pairIceOut(a) /\ UNCHANGED <<rtcVars, sigVars, obsVars, connVars, busVars, stopVars>>
  \/ \E a \in Nodes : pairIceIn(a) /\ UNCHANGED <<rtcVars, sigVars, obsVars, connVars, busVars, stopVars>>
  \/ \E a \in Nodes : pairDcOpen(a) /\ UNCHANGED <<rtcVars, sigVars, obsVars, connVars, busVars, stopVars>>
  \/ \E a \in Nodes : pairFrame(a) /\ UNCHANGED <<rtcVars, sigVars, obsVars, connVars, busVars, stopVars>>
  \/ \E t \in pairTasks : pairKx(t) /\ UNCHANGED <<rtcVars, sigVars, obsVars, connVars, busVars, stopVars>>
  \/ \E t \in pairTasks : pairFlushDone(t) /\ UNCHANGED <<rtcVars, sigVars, obsVars, connVars, busVars, stopVars>>
  \/ \E t \in pairTasks : pairSendDone(t) /\ UNCHANGED <<rtcVars, sigVars, obsVars, connVars, busVars, stopVars>>
  \/ \E t \in pairTasks : pairRxDone(t) /\ UNCHANGED <<rtcVars, sigVars, obsVars, connVars, busVars, stopVars>>

SpecPair == Init /\ [][NextPair]_vars

\* Node 1 initiates to node 2, once; node 2 never calls connectToPeer.
\* Every handler runs once its event is there: signals and frames are
\* delivered, the transport connects, crypto promises settle.  The calls of
\* the applications (connectToPeer, sendToPeer) are not forced.
NextHandshake ==
  \/ pairCount[1].calls = 0 /\ pairConnect(1)
       /\ UNCHANGED <<rtcVars, sigVars, obsVars, connVars, busVars, stopVars>>
  \/ \E a \in Nodes : pairSend(a) /\ UNCHANGED <<rtcVars, sigVars, obsVars, connVars, busVars, stopVars>>
  \/ \E a \in Nodes : pairOffer(a) /\ UNCHANGED <<rtcVars, sigVars, obsVars, connVars, busVars, stopVars>>
  \/ \E a \in Nodes : pairAnswer(a) /\ UNCHANGED <<rtcVars, sigVars, obsVars, connVars, busVars, stopVars>>
  \/ \E a \in Nodes : pairIceOut(a) /\ UNCHANGED <<rtcVars, sigVars, obsVars, connVars, busVars, stopVars>>
  \/ \E a \in Nodes : pairIceIn(a) /\ UNCHANGED <<rtcVars, sigVars, obsVars, connVars, busVars, stopVars>>
  \/ \E a \in Nodes : pairDcOpen(a) /\ UNCHANGED <<rtcVars, sigVars, obsVars, connVars, busVars, stopVars>>
  \/ \E a \in Nodes : pairFrame(a) /\ UNCHANGED <<rtcVars, sigVars, obsVars, connVars, busVars, stopVars>>
  \/ \E t \in pairTasks : pairKx(t) /\ UNCHANGED <<rtcVars, sigVars, obsVars, connVars, busVars, stopVars>>
  \/ \E t \in pairTasks : pairFlushDone(t) /\ UNCHANGED <<rtcVars, sigVars, obsVars, connVars, busVars, stopVars>>
  \/ \E t \in pairTasks : pairSendDone(t) /\ UNCHANGED <<rtcVars, sigVars, obsVars, connVars, busVars, stopVars>>
  \/ \E t \in pairTasks : pairRxDone(t) /\ UNCHANGED <<rtcVars, sigVars, obsVars, connVars, busVars, stopVars>>

SpecHandshake ==
  /\ Init
  /\ [][NextHandshake]_vars
  /\ WF_vars((\E a \in Nodes : pairOffer(a)) /\ UNCHANGED <<rtcVars, sigVars, obsVars, connVars, busVars, stopVars>>)
  /\ WF_vars((\E a \in Nodes : pairAnswer(a)) /\ UNCHANGED <<rtcVars, sigVars, obsVars, connVars, busVars, stopVars>>)
  /\ WF_vars((\E a \in Nodes : pairIceOut(a)) /\ UNCHANGED <<rtcVars, sigVars, obsVars, connVars, busVars, stopVars>>)
  /\ WF_vars((\E a \in Nodes : pairIceIn(a)) /\ UNCHANGED <<rtcVars, sigVars, obsVars, connVars, busVars, stopVars>>)
  /\ WF_vars((\E a \in Nodes : pairDcOpen(a)) /\ UNCHANGED <<rtcVars, sigVars, obsVars, connVars, busVars, stopVars>>)
  /\ WF_vars((\E a \in Nodes : pairFrame(a)) /\ UNCHANGED <<rtcVars, sigVars, obsVars, connVars, busVars, stopVars>>)
  /\ WF_vars((\E t \in pairTasks : pairKx(t)) /\ UNCHANGED <<rtcVars, sigVars, obsVars, connVars, busVars, stopVars>>)
  /\ WF_vars((\E t \in pairTasks : pairFlushDone(t)) /\ UNCHANGED <<rtcVars, sigVars, obsVars, connVars, busVars, stopVars>>)
  /\ WF_vars((\E t \in pairTasks : pairSendDone(t)) /\ UNCHANGED <<rtcVars, sigVars, obsVars, connVars, busVars, stopVars>>)
  /\ WF_vars((\E t \in pairTasks : pairRxDone(t)) /\ UNCHANGED <<rtcVars, sigVars, obsVars, connVars, busVars, stopVars>>)
\* ===================================================================== claims
InTable(o) == \E i \in 1..Len(peers) : peers[i].obj = o

AppMsgs(o, vias) ==
  SelectSeq(wire[o], LAMBDA f : f.frame.t = "app" /\ f.via \in vias)

Flushing(o) == \E t \in tasks : t.kind \in {"kx", "flush"} /\ t.obj = o

\* C1: once a session's sharedKey is set it is never assigned again, whatever
\* key-exchange frames arrive (stated on the key's value: it never changes).
C1_KeyAssignedOnce ==
  [][\A o \in 1..Len(heap) :
       heap[o].sharedKey # NoKey => heap'[o].sharedKey = heap[o].sharedKey]_vars

\* C2: the messages queued for a session and flushed when its key is
\* established go out on its channel in the order they were submitted, each
\* once (messages are numbered in submission order).
C2_FlushInSubmissionOrder ==
  \A o \in 1..Len(heap) :
    LET q == AppMsgs(o, {"flush"})
    IN  \A i, j \in 1..Len(q) : i < j => q[i].frame.msg < q[j].frame.msg

Count(seq, Test(_)) == Cardinality({i \in 1..Len(seq) : Test(seq[i])})

\* The messages sent in application frames on any channel of peer id.
SentTo(id) ==
  UNION {{wire[o][i].frame.msg : i \in {k \in 1..Len(wire[o]) : wire[o][k].frame.t = "app"}} :
         o \in {x \in 1..Len(heap) : heap[x].id = id}}

\* A broadcast has returned and nothing else happened to its sessions since
\* the call: the table is as it was, every session that was encrypted still
\* has its channel open, every other session still has no key.
BroadcastUndisturbed ==
  /\ ret.how = "broadcast"
  /\ Snapshot(peers, heap) = ret.snap
  /\ \A i \in 1..Len(ret.snap) :
       ret.snap[i].encrypted => heap[ret.snap[i].obj].dc = "open"

\* C3: a broadcast to N sessions of which M are encrypted makes M
\* transmissions and N - M queued acceptances, and every message queued for a
\* session has been transmitted to its peer once that session is encrypted,
\* its channel is open and its flush is over.
C3_BroadcastNoneLost ==
  /\ BroadcastUndisturbed =>
       /\ Count(ret.res, LAMBDA r : r.how = "sent") =
            Count(ret.snap, LAMBDA e : e.encrypted)
       /\ Count(ret.res, LAMBDA r : r.how = "queued") =
            Count(ret.snap, LAMBDA e : ~e.encrypted)
  /\ \A o \in 1..Len(heap) :
       (/\ InTable(o)
        /\ heap[o].sharedKey # NoKey
        /\ heap[o].dc = "open"
        /\ ~Flushing(o))
       => heap[o].queued \subseteq SentTo(heap[o].id)

\* sendToPeer has just returned (not from inside broadcast or the flush).
SendReturned == ret.how \in {"nopeer", "queued", "closed", "await"}

C5_OneDisconnectPerSession ==
  \A o \in 1..Len(heap) :
    (~\E n \in (o + 1)..Len(heap) : heap[n].id = heap[o].id /\ heap[n].isInitiator)
    => emitted[o].disc = (IF InTable(o) THEN 0 ELSE 1)

\* C6: when a key derivation completes for a peer id that has no session in
\* the table any more, no session record changes, nothing is sent and no event
\* is published.
C6_StaleContinuationNoOp ==
  [][\A t \in tasks :
       (t.kind = "kx" /\ t \notin tasks' /\ PeersGet(peers, t.id) = NoObj)
       => (heap' = heap /\ wire' = wire /\ emitted' = emitted)]_vars

\* C8: when the key exchange started by a duplicate control frame (same public
\* key, key already set) completes, the key, the state and the queue are
\* unchanged, no peer-encrypted event is published and nothing is sent.
C8_DuplicateControlIgnored ==
  [][\A t \in tasks :
       (/\ t.kind = "kx" /\ t \notin tasks'
        /\ heap[t.obj].sharedKey # NoKey
        /\ heap[t.obj].sharedKey = completeKeyExchange(MyPriv, t.pk))
       => /\ heap' = heap /\ wire' = wire /\ emitted' = emitted
          /\ tasks' = tasks \ {t}]_vars

\* C9: right after disconnectAll() the roster is empty, and disconnectAll() on
\* an empty table changes nothing and publishes no event.
C9_DisconnectAllEmpties ==
  [][ret'.how = "disconnectAll" =>
       /\ getPeerList(peers', heap') = <<>>
       /\ peers = <<>> => (heap' = heap /\ emitted' = emitted /\ tasks' = tasks
                           /\ wire' = wire /\ peers' = peers)]_vars

C9_Witness ==
  /\ ret.how = "disconnectAll"
  /\ Len(heap) = NumPeers
  /\ \A o \in 1..Len(heap) : heap[o].id = o /\ emitted[o].disc = 1 /\ heap[o].pc = "closed"

StateRank(st) == IF st = "connecting" THEN 0 ELSE IF st = "open" THEN 1 ELSE 2

\* C13: a session holds a key only after a control frame on its own open data
\* channel; so no session holds a key while its own channel has never opened
\* (is still connecting), whatever key-exchange signals the signaling channel
\* delivers.
C13_KeyOnlyOverOwnChannel ==
  \A o \in 1..Len(heap) :
    heap[o].sharedKey # NoKey => heap[o].dc # "connecting"

\* C17: disconnectPeer(id) for an id without a session changes neither the
\* table nor any record and publishes no event; for an id with a session it
\* removes exactly that entry and publishes exactly one peer-disconnected, for
\* that session; so a repeated call, which finds no session, has no effect.
C17_DisconnectPeerOnce ==
  [][\A id \in Ids :
       lastCall' = [op |-> "disconnectPeer", id |-> id] =>
         LET o == PeersGet(peers, id)
         IN  IF o = NoObj
             THEN /\ peers' = peers /\ heap' = heap /\ emitted' = emitted
                  /\ tasks' = tasks /\ wire' = wire
             ELSE /\ peers' = PeersDelete(peers, id)
                  /\ PeersGet(peers', id) = NoObj
                  /\ emitted'[o].disc = emitted[o].disc + 1
                  /\ emitted[o].disc = 0
                  /\ \A x \in 1..MaxObj : x # o => emitted'[x] = emitted[x]]_vars

\* disconnectPeer(1) has just returned: the session of peer 1 is gone with its
\* one event, and the session of peer 2 is still in the table.
C17_Witness ==
  /\ lastCall = [op |-> "disconnectPeer", id |-> 1]
  /\ PeersGet(peers, 1) = NoObj
  /\ \E o \in 1..Len(heap) : heap[o].id = 1 /\ emitted[o].disc = 1
  /\ \E o \in 1..Len(heap) : heap[o].id = 2 /\ InTable(o) /\ emitted[o].disc = 0

\* C19: a session record's state never moves backwards along connecting ->
\* open -> encrypted, and the record of a session that has left the table
\* never changes state again.
C19_StateOnlyForward ==
  [][\A o \in 1..Len(heap) :
       /\ StateRank(heap'[o].state) >= StateRank(heap[o].state)
       /\ ~InTable(o) => heap'[o].state = heap[o].state]_vars

\* C20: on each channel the application frames are transmitted in the order
\* in which sendToPeer / broadcast accepted their messages (messages are
\* numbered in acceptance order), whoever transmits them: the flush, a direct
\* send or a broadcast.
C20_TransmitInAcceptanceOrder ==
  \A o \in 1..Len(heap) :
    LET q == AppMsgs(o, {"flush", "send", "bcast"})
    IN  \A i, j \in 1..Len(q) : i < j => q[i].frame.msg <= q[j].frame.msg

\* C11: when the decrypt of an application frame settles, the session table,
\* every session record (state, key, queue), the events published and the
\* frames sent are unchanged; a frame that does not decrypt under the key, or
\* whose plaintext is not JSON, is reported as an error and dropped, and a
\* frame that does is delivered as a message event of its session, whatever
\* frames failed before it.
C11_BadFrameOnlyDropped ==
  [][\A t \in tasks :
       (t.kind = "rx" /\ t \notin tasks') =>
         LET good == t.frame.key = t.key /\ t.frame.json
         IN  /\ peers' = peers /\ heap' = heap /\ emitted' = emitted /\ wire' = wire
             /\ log' = [log EXCEPT ![t.obj] =
                          Append(@, Logged(IF good THEN "message" ELSE "error",
                                           t.frame.msg))]]_vars

\* A session still in the table, never disconnected, dropped a frame and then
\* delivered a later one.
C11_Witness ==
  \E o \in 1..Len(heap) :
    /\ InTable(o)
    /\ emitted[o].disc = 0
    /\ Len(log[o]) = 2
    /\ log[o][1] = Logged("error", 1)
    /\ log[o][2] = Logged("message", 2)

\* C12: when the key exchange started by a control frame with a malformed
\* public key settles, the table, every session record (key, state, pending
\* queue and its order), the events published and the frames sent are
\* unchanged; and when a key exchange with a valid key settles for a session
\* without a key, rejected frames before it or not, the session gets the
\* derived key, becomes encrypted, one peer-encrypted is published, and its
\* queue is either emptied or being flushed from its first message.
C12_MalformedKeyRejected ==
  [][\A t \in tasks :
       (t.kind = "kx" /\ t \notin tasks') =>
         IF t.pk = BadKey
         THEN /\ peers' = peers /\ heap' = heap /\ emitted' = emitted /\ wire' = wire
              /\ tasks' = tasks \ {t}
         ELSE heap[t.obj].sharedKey = NoKey =>
                /\ heap'[t.obj].sharedKey = completeKeyExchange(MyPriv, t.pk)
                /\ heap'[t.obj].state = "encrypted"
                /\ emitted'[t.obj].enc = emitted[t.obj].enc + 1
                /\ \/ heap'[t.obj].pendingMessages = <<>>
                   \/ \E f \in tasks' :
                        /\ f.kind = "flush" /\ f.obj = t.obj
                        /\ f.msg = Head(heap[t.obj].pendingMessages)]_vars

\* A session rejected a malformed key, was encrypted by a later control frame
\* and its queued message has been flushed to the channel.
C12_Witness ==
  \E o \in 1..Len(heap) :
    /\ log[o] # <<>>
    /\ log[o][1].ev = "kxerror"
    /\ heap[o].sharedKey # NoKey
    /\ emitted[o].enc = 1
    /\ heap[o].queued # {}
    /\ heap[o].pendingMessages = <<>>
    /\ \A m \in heap[o].queued :
         \E i \in 1..Len(wire[o]) : wire[o][i].via = "flush" /\ wire[o][i].frame.msg = m

\* C16: a connect() call whose timeout has elapsed is settled: resolved with
\* the peer id if the welcome message came, rejected otherwise; it is not
\* still pending once its timer has fired and its socket is closed, when no
\* welcome can come any more.  Stated for the connect() calls that follow a
\* single call of the application: its own and those of the reconnect timer.
C16_ConnectSettles ==
  (userCalls <= 1 /\ connPromise.timeout = "fired" /\ ws = "closed")
  => connPromise.state # "pending"

PairEncrypted ==
  /\ \A a \in Nodes : pair[a].state = "encrypted" /\ pair[a].dc = "open"
                      /\ pairCount[a].ctrl = 1
  /\ pair[1].sharedKey # NoKey
  /\ pair[1].sharedKey = pair[2].sharedKey

\* C14: when node 1 has initiated to node 2 and nothing fails, both channels
\* eventually open, each node sends one control frame, and both sessions
\* eventually are encrypted with the same key, and stay so.
C14_BothEventuallyEncrypted ==
  (pair[1].state # "none") ~> [](PairEncrypted)

\* The handshake is over, and a message queued during it went out.
C14_Witness ==
  /\ PairEncrypted
  /\ pair[1].isInitiator /\ ~pair[2].isInitiator
  /\ pairCount[1].msgs = 1
  /\ pair[1].pendingMessages = <<>>
  /\ pairInbox[2] = <<Logged("message", 1)>>

\* C15: when both nodes hold a session for each other, exactly one of the two
\* sessions has isInitiator = true.
C15_OneInitiator ==
  (\A a \in Nodes : pair[a].state # "none")
  => (pair[1].isInitiator # pair[2].isInitiator)

\* C21: every application frame a node has handled was delivered as a
\* 'message' event: none was dropped for want of a key or failed to decrypt,
\* also when it arrived while the receiver's key derivation was in progress.
C21_NoFrameLostInRace ==
  \A a \in Nodes : \A i \in 1..Len(pairInbox[a]) : pairInbox[a][i].ev = "message"

\* C22: a session's pending outbound queue is non-empty only while its state
\* is not 'encrypted': a record in state 'encrypted' has an empty queue, also
\* during and after the flush.
C22_QueueEmptyWhenEncrypted ==
  \A o \in 1..Len(heap) :
    heap[o].state = "encrypted" => heap[o].pendingMessages = <<>>

\* Tasks t and u are the same call of sendToPeer.
SameCall(t, u) == t.kind = u.kind /\ t.n = u.n /\ t.tgt = u.tgt /\ t.msg = u.msg

Sending(t) == t.kind \in {"send", "flush", "bcast"}

\* C23: every frame put on a data channel is either the control frame that
\* dc.onopen sends, or the encryption of a message under the shared key the
\* session held when sendToPeer encrypted it: a sendToPeer call encrypts only
\* with the key of its session, which is set, and a frame is transmitted only
\* by such a call, on the channel of that session, which has a key then.
C23_OnlyEncryptedFrames ==
  [][/\ \A t \in tasks' :
          (Sending(t) /\ ~\E u \in tasks : SameCall(t, u))
          => t.key # NoKey /\ t.key = heap'[t.tgt].sharedKey
     /\ \A o \in 1..MaxObj :
          wire'[o] # wire[o] =>
            /\ Len(wire'[o]) = Len(wire[o]) + 1
            /\ SubSeq(wire'[o], 1, Len(wire[o])) = wire[o]
            /\ LET e == wire'[o][Len(wire'[o])]
               IN  \/ e.via = "onopen" /\ e.frame = ControlFrame
                   \/ /\ e.frame.t = "app"
                      /\ e.frame.key # NoKey
                      /\ heap[o].sharedKey # NoKey
                      /\ \E t \in tasks :
                           /\ t.kind = e.via /\ t.tgt = o
                           /\ e.frame = encrypt(t.key, t.msg)]_vars

\* A channel carried the control frame, then a queued message that the flush
\* encrypted, then a message sent directly, both under the session's key.
C23_Witness ==
  \E o \in 1..Len(heap) :
    /\ Len(wire[o]) = 3
    /\ wire[o][1] = Sent(ControlFrame, "onopen")
    /\ wire[o][2].via = "flush" /\ wire[o][2].frame.key = heap[o].sharedKey
    /\ wire[o][3].via = "send" /\ wire[o][3].frame.key = heap[o].sharedKey
    /\ heap[o].sharedKey # NoKey

TransportEvents == {"dc.onopen", "dc.onclose", "pc.oniceconnectionstatechange"}

\* C24: when the session of a peer id was replaced by one an inbound offer
\* created, an event of the earlier connection or channel (ICE state change,
\* channel close, channel open) neither removes the new session from the
\* table nor changes its record.
C24_OldEventsSpareNewSession ==
  [][\A o \in 1..Len(heap) :
       LET p == PeersGet(peers, heap[o].id)
       IN  (/\ lastCall'.op \in TransportEvents
            /\ lastCall'.id = o
            /\ p # NoObj /\ p # o
            /\ ~heap[p].isInitiator)
           => /\ PeersGet(peers', heap[o].id) = p
              /\ heap'[p] = heap[p]]_vars

\* C25: for every entry getPeerList returns, encrypted is true exactly when
\* state is 'encrypted'.
C25_EncryptedIffStateEncrypted ==
  LET L == getPeerList(peers, heap)
  IN  \A i \in 1..Len(L) : L[i].encrypted <=> (L[i].state = "encrypted")

\* C26: the status 'failed' is published only when MAX_RECONNECT reconnection
\* attempts were made since the last open of the signaling connection, and
\* each of them has failed (its socket closed without opening).
C26_FailedOnlyAfterAttempts ==
  status = "failed" => autoAttempts >= MAX_RECONNECT /\ closes > autoAttempts

\* C27: from a disconnect() call until the next connect() call of the
\* application, no reconnection is started: no reconnect timer calls connect()
\* and no close event schedules a reconnect timer.
C27_NoReconnectAfterDisconnect ==
  [][(stopped /\ stopped') =>
       /\ autoAttempts' <= autoAttempts
       /\ PendingTimers' <= PendingTimers]_vars

\* C7: when the only signaling connection drops and every reconnection attempt
\* fails, with no connect() or disconnect() call of the application meanwhile,
\* 'failed' is published at the 6th close, after exactly 5 attempts, each
\* scheduled at RECONNECT_DELAY, and then no timer is pending and no socket is
\* alive: no further attempt can start.
C7_ReconnectBounded ==
  /\ solo => /\ autoAttempts <= MAX_RECONNECT
             /\ reconnectTimer \in {NoTimer, RECONNECT_DELAY}
  /\ (solo /\ status = "failed") =>
       /\ autoAttempts = MAX_RECONNECT
       /\ closes = MAX_RECONNECT + 1
       /\ PendingTimers = 0
       /\ LiveSockets = 0

C7_Witness == solo /\ status = "failed" /\ autoAttempts = MAX_RECONNECT
====
